---- MODULE Spec2Model ----
(***************************************************************************)
(* Model of iambriccardo/causal: replicas holding an operation-based CRDT, *)
(* each with an event log, pulling events from their peers.                *)
(*   src/src/causal_time/mod.rs   VectorClock                              *)
(*   src/src/causal_core/mod.rs   Event, ReplicaState and its process_*    *)
(*   src/src/causal_actix/mod.rs  Replica (the actor) and its handlers     *)
(*   src/src/causal_impl/mod.rs   Counter and the InMemory event store     *)
(***************************************************************************)
EXTENDS Integers, Sequences, FiniteSets, Bags, TLC

(***************************************************************************)
(* Bounds of the model.                                                    *)
(***************************************************************************)
\* replicas_number of main.rs: the replicas are 0 .. NumReplicas - 1
NumReplicas == 3
\* Command messages handled, over all replicas
MaxCommands == 2
\* Sync messages handled, over all replicas
MaxSyncs == 3
\* Sync messages handled, over all replicas, in the runs with late Connects
MaxSyncsOpen == 2
\* Sync messages handled, over all replicas, in the runs with restarts
MaxSyncsRestart == 1
\* Command and Sync messages handled by the two LSeq replicas
MaxCommandsLSeq == 3
MaxSyncsLSeq == 3
\* Command and Sync messages handled by the two RGA replicas
MaxCommandsRGA == 3
MaxSyncsRGA == 3
\* Command and Sync messages handled by the two ORSet replicas
MaxCommandsORSet == 3
MaxSyncsORSet == 3
\* Command and Sync messages handled after the start of the unseen() comment
MaxCommandsUnseen == 1
MaxSyncsUnseen == 2
\* the largest entry increment raises a clock held outside the replicas to
MaxClock == 2
\* restarts (load_state after the first start), over all replicas
MaxRestarts == 1
\* snapshots saved, over all replicas
MaxSnapshots == 1

Replicas == 0 .. (NumReplicas - 1)

VARIABLES
    replica_state,      \* Replica.replica_state of each replica
    event_store,        \* Replica.event_store: [events, last_snapshot]
    replicating_nodes,  \* Replica.replicating_nodes: the keys of the peer directory
    mailbox,            \* Replicate / Replicated messages sent and not yet handled
    alive,              \* FALSE once a handler of the replica has panicked
    starts,             \* how often Actor::started has run at each replica
    init_crdt,          \* Replica.init_crdt: the CRDT a replica is created with
    budget,             \* the inputs the environment may still issue
    clock_1,            \* a VectorClock a caller holds, outside any replica
    clock_2,            \* a second VectorClock
    clock_op,           \* the last call made on clock_1 or clock_2
    input_field,        \* InputField: [cursor_position, value]
    receiver,           \* LSeqReceiver: [replica_id, commands]
    start_string,       \* the string InputField::start was given
    reading,            \* the loop of InputField::render has not met Enter yet
    keys_left           \* the keys the terminal may still deliver

vars == <<replica_state, event_store, replicating_nodes, mailbox, alive, starts,
          init_crdt, budget, clock_1, clock_2, clock_op,
          input_field, receiver, start_string, reading, keys_left>>

\* the clocks held outside the replicas
clock_vars == <<clock_1, clock_2, clock_op>>

\* the editor of the console and the receiver of its edits
input_vars == <<input_field, receiver, start_string, reading, keys_left>>

\* the replicas and their environment
replica_vars == <<replica_state, event_store, replicating_nodes, mailbox, alive, starts,
                  init_crdt, budget>>

(***************************************************************************)
(* HashMap<K, V> as a function whose domain is the set of keys present.    *)
(* Option<T> as a sequence: <<>> is None, <<x>> is Some(x).                *)
(***************************************************************************)
EmptyMap == << >>

Get(m, k) == IF k \in DOMAIN m THEN m[k] ELSE 0

Insert(m, k, v) == [x \in (DOMAIN m) \cup {k} |-> IF x = k THEN v ELSE m[x]]

Max(a, b) == IF a >= b THEN a ELSE b

None == << >>

Some(x) == <<x>>

(***************************************************************************)
(* causal_time: VectorClock                                                *)
(***************************************************************************)
\* VectorClock::init
init == EmptyMap

\* VectorClock::increment: *entry(replica_id).or_insert(0) += 1
increment(vector, replica_id) == Insert(vector, replica_id, Get(vector, replica_id) + 1)

\* A merge that keeps the receiver's clock and drops the other one
merge_keeping(vector, replica_id, other_vector) == vector

\* A merge that first increments the merging replica's entry (the line the code
\* has commented out)
merge_incrementing(vector, replica_id, other_vector) ==
    [k \in (DOMAIN vector) \cup (DOMAIN other_vector) \cup {replica_id} |->
        Max(Get(increment(vector, replica_id), k), Get(other_vector, k))]

\* VectorClock::merge: the first argument of the code (the merging replica) is
\* ignored by it ("_: T"); every key of either clock gets max(a, b).
merge(vector, replica_id, other_vector) ==
    [k \in (DOMAIN vector) \cup (DOMAIN other_vector) |->
        Max(Get(vector, k), Get(other_vector, k))]

\* The keys of two clocks in the order the fold visits them. The code chains the
\* two HashMaps' key iterators; the fold below gives the same result for every
\* order, so one order (ascending) stands for them.
RECURSIVE SetToSeq(_)
SetToSeq(S) ==
    IF S = {} THEN << >>
    ELSE LET m == CHOOSE x \in S : \A y \in S : x <= y
         IN  <<m>> \o SetToSeq(S \ {m})

\* A step that never answers Greater
compare_step_sticky(prev_cmp, a, b) ==
    CASE prev_cmp = "Equal" /\ a < b -> "Less"
      [] prev_cmp = "Greater" /\ a < b -> "Concurrent"
      [] OTHER -> prev_cmp

\* A step that answers for the last key that differs
compare_step_latest(prev_cmp, a, b) ==
    CASE a < b -> "Less"
      [] a > b -> "Greater"
      [] OTHER -> prev_cmp

\* One step of the fold of VectorClock::compare
compare_step(prev_cmp, a, b) ==
    CASE prev_cmp = "Equal" /\ a < b -> "Less"
      [] prev_cmp = "Equal" /\ a > b -> "Greater"
      [] prev_cmp = "Less" /\ a > b -> "Concurrent"
      [] prev_cmp = "Greater" /\ a < b -> "Concurrent"
      [] OTHER -> prev_cmp

RECURSIVE compare_fold(_, _, _, _)
compare_fold(prev_cmp, keys, v, w) ==
    IF keys = << >> THEN prev_cmp
    ELSE compare_fold(compare_step(prev_cmp, Get(v, Head(keys)), Get(w, Head(keys))),
                      Tail(keys), v, w)

\* VectorClock::compare
compare(vector, other_vector) ==
    compare_fold("Equal", SetToSeq((DOMAIN vector) \cup (DOMAIN other_vector)),
                 vector, other_vector)

(***************************************************************************)
(* causal_impl: Counter                                                    *)
(***************************************************************************)
\* Counter::default
CounterDefault == [type |-> "Counter", value |-> 0]

\* Counter::query
CounterQuery(crdt) == crdt.value

\* Counter::prepare: the only command is Increment, prepared as 1
CounterPrepare(crdt, command) == 1

\* Counter::effect
CounterEffect(crdt, event) == [crdt EXCEPT !.value = crdt.value + event.data]

\* A panic inside an implementation of the CRDT trait (an expect() that fails)
Panicked == [type |-> "Panicked"]

(***************************************************************************)
(* causal_lseq: LSeq. A ptr is [sequence, replica_id], a sequence a Vec<u8>*)
(* (indices from 1 here, from 0 in the code); elements is the Vec of       *)
(* (ptr, value) pairs.                                                     *)
(***************************************************************************)
\* the default of max in generate(): the largest u8
U8Max == 255

\* generate() inside LSeqPtr::generate_seq; mid has i - 1 entries when called,
\* so mid.insert(i, x) appends x
RECURSIVE generate(_, _, _, _)
generate(mid, low, high, i) ==
    LET min == IF i > Len(low) THEN 0 ELSE low[i]
        max == IF i > Len(high) THEN U8Max ELSE high[i]
    IN  IF min + 1 < max
        THEN Append(mid, min + 1)
        ELSE generate(Append(mid, min), low, high, i + 1)

\* LSeqPtr::generate_seq
generate_seq(low, high) == generate(<< >>, low, high, 1)

\* LSeqPtr::from
LSeqPtrFrom(replica_id, low, high) ==
    [sequence |-> generate_seq(low, high), replica_id |-> replica_id]

\* PartialEq for LSeqPtr
LSeqPtrEq(self, other) ==
    LET matching == Cardinality({i \in 1 .. (IF Len(self.sequence) <= Len(other.sequence)
                                             THEN Len(self.sequence)
                                             ELSE Len(other.sequence)) :
                                    self.sequence[i] = other.sequence[i]})
    IN  /\ matching = Len(self.sequence)
        /\ matching = Len(other.sequence)
        /\ self.replica_id = other.replica_id

\* the for loop of partial_cmp: the first index where the sequences differ decides
RECURSIVE LSeqPtrCmpFrom(_, _, _, _)
LSeqPtrCmpFrom(self, other, i, length) ==
    IF i > length
    THEN IF Len(self.sequence) < Len(other.sequence) THEN "Less"
         ELSE IF Len(self.sequence) > Len(other.sequence) THEN "Greater"
         ELSE IF self.replica_id < other.replica_id THEN "Less" ELSE "Greater"
    ELSE IF self.sequence[i] < other.sequence[i] THEN "Less"
         ELSE IF self.sequence[i] > other.sequence[i] THEN "Greater"
         ELSE LSeqPtrCmpFrom(self, other, i + 1, length)

\* A comparison that leaves the owners out: equal sequences are never Less
LSeqPtrCmpNoOwner(self, other) ==
    LSeqPtrCmpFrom([self EXCEPT !.replica_id = 0], [other EXCEPT !.replica_id = 0], 1,
                   IF Len(self.sequence) <= Len(other.sequence)
                   THEN Len(self.sequence) ELSE Len(other.sequence))

\* PartialOrd for LSeqPtr: partial_cmp; it never answers Equal
LSeqPtrCmp(self, other) ==
    LSeqPtrCmpFrom(self, other, 1,
                   IF Len(self.sequence) <= Len(other.sequence)
                   THEN Len(self.sequence) ELSE Len(other.sequence))

\* self <= other as PartialOrd derives it from partial_cmp: Less or Equal
LSeqPtrLe(self, other) == LSeqPtrCmp(self, other) \in {"Less", "Equal"}

\* self < other
LSeqPtrLt(self, other) == LSeqPtrCmp(self, other) = "Less"

\* LSeq::default
LSeqDefault == [type |-> "LSeq", elements |-> << >>]

\* LSeq::query
LSeqQuery(crdt) == [i \in DOMAIN crdt.elements |-> crdt.elements[i].value]

\* LSeq::prepare; index counts from 0 as in the code
LSeqPrepare(crdt, command) ==
    IF command.cmd = "Insert"
    THEN LET index == command.index
             left == IF index = 0 THEN << >> ELSE crdt.elements[index].ptr.sequence
             right == IF index >= Len(crdt.elements) THEN << >>
                      ELSE crdt.elements[index + 1].ptr.sequence
         IN  [op |-> "Inserted", ptr |-> LSeqPtrFrom(command.replica_id, left, right),
              value |-> command.value]
    ELSE [op |-> "Removed", ptr |-> crdt.elements[command.index + 1].ptr]

\* Vec::insert at a position counted from 0
VecInsert(vec, index, x) ==
    SubSeq(vec, 1, index) \o <<x>> \o SubSeq(vec, index + 1, Len(vec))

\* Vec::remove at a position counted from 0
VecRemove(vec, index) == SubSeq(vec, 1, index) \o SubSeq(vec, index + 2, Len(vec))

\* Iterator::position: the first position, counted from 0, whose entry satisfies
\* the test, as an Option; test[i] tells whether the i-th entry satisfies it
Position(test) ==
    LET hits == {i \in DOMAIN test : test[i]}
    IN  IF hits = {} THEN None
        ELSE Some((CHOOSE i \in hits : \A j \in hits : i <= j) - 1)

\* LSeq::effect; the expect() of Removed panics when no element has the ptr
LSeqEffect(crdt, event) ==
    IF event.data.op = "Inserted"
    THEN LET found == Position([i \in DOMAIN crdt.elements |->
                                  LSeqPtrLe(event.data.ptr, crdt.elements[i].ptr)])
             index == IF found = None THEN Len(crdt.elements) ELSE found[1]
         IN  [crdt EXCEPT !.elements =
                VecInsert(@, index, [ptr |-> event.data.ptr, value |-> event.data.value])]
    ELSE LET found == Position([i \in DOMAIN crdt.elements |->
                                  LSeqPtrEq(event.data.ptr, crdt.elements[i].ptr)])
         IN  IF found = None THEN Panicked
             ELSE [crdt EXCEPT !.elements = VecRemove(@, found[1])]

(***************************************************************************)
(* causal_rga: RGA. A ptr is [seq_nr, replica_id]; elements is the Vec of  *)
(* (ptr, Option<value>) pairs, None being a tombstone; positions count     *)
(* from 0 as in the code.                                                  *)
(***************************************************************************)
\* RGAPtr::new
RGAPtrNew(replica_id) == [seq_nr |-> 0, replica_id |-> replica_id]

\* RGAPtr::next_seq_nr
next_seq_nr(self) == [self EXCEPT !.seq_nr = self.seq_nr + 1]

\* A sequencer that ignores the seq_nr of the ptrs it observes
update_highest_observed_seq_nr_own(self, other_v_ptr) == self

\* RGAPtr::update_highest_observed_seq_nr
update_highest_observed_seq_nr(self, other_v_ptr) ==
    [self EXCEPT !.seq_nr = Max(self.seq_nr, other_v_ptr.seq_nr)]

\* PartialOrd for RGAPtr: partial_cmp, an Option
RGAPtrCmp(self, other) ==
    IF self.seq_nr < other.seq_nr THEN Some("Less")
    ELSE IF self.seq_nr > other.seq_nr THEN Some("Greater")
    ELSE IF self.replica_id < other.replica_id THEN Some("Less")
    ELSE IF self.replica_id > other.replica_id THEN Some("Greater")
    ELSE None

\* self < other
RGAPtrLt(self, other) == RGAPtrCmp(self, other) = Some("Less")

\* the base pointer RGAPtr::new(-1) of RGA::default
RGABaseReplicaId == -1

\* RGA::default(Some(replica_id))
RGADefault(replica_id) ==
    [type |-> "RGA",
     sequencer |-> RGAPtrNew(replica_id),
     elements |-> <<[ptr |-> RGAPtrNew(RGABaseReplicaId), value |-> None]>>]

\* RGA::query
RGAQuery(crdt) ==
    LET visible == SelectSeq(crdt.elements, LAMBDA el : el.value # None)
    IN  [i \in DOMAIN visible |-> visible[i].value[1]]

\* the while loop of RGA::index_with_tombstones
RECURSIVE index_with_tombstones_loop(_, _, _)
index_with_tombstones_loop(crdt, offset, remaining) ==
    IF offset < Len(crdt.elements) /\ remaining > 0
    THEN index_with_tombstones_loop(crdt, offset + 1,
            IF crdt.elements[offset + 1].value # None THEN remaining - 1 ELSE remaining)
    ELSE offset

\* RGA::index_with_tombstones
index_with_tombstones(crdt, index) == index_with_tombstones_loop(crdt, 1, index)

\* RGA::index_of_v_ptr, an Option: the expect() panics on None
index_of_v_ptr(crdt, v_ptr) == Position([i \in DOMAIN crdt.elements |-> crdt.elements[i].ptr = v_ptr])

\* A shift that keeps the place next to the predecessor
shift_none(crdt, offset, v_ptr) == offset

\* RGA::shift
RECURSIVE shift(_, _, _)
shift(crdt, offset, v_ptr) ==
    IF offset < Len(crdt.elements) /\ RGAPtrLt(v_ptr, crdt.elements[offset + 1].ptr)
    THEN shift(crdt, offset + 1, v_ptr)
    ELSE offset

\* RGA::prepare
RGAPrepare(crdt, command) ==
    LET index == index_with_tombstones(crdt, command.index)
    IN  IF command.cmd = "Insert"
        THEN [op |-> "Inserted", prev |-> crdt.elements[index].ptr,
              ptr |-> next_seq_nr(crdt.sequencer), value |-> command.value]
        ELSE [op |-> "Removed", ptr |-> crdt.elements[index + 1].ptr]

\* RGA::effect
RGAEffect(crdt, event) ==
    IF event.data.op = "Inserted"
    THEN LET predecessor_index == index_of_v_ptr(crdt, event.data.prev)
         IN  IF predecessor_index = None THEN Panicked
             ELSE LET insert_index == shift(crdt, predecessor_index[1] + 1, event.data.ptr)
                  IN  [crdt EXCEPT
                         !.sequencer = update_highest_observed_seq_nr(@, event.data.ptr),
                         !.elements = VecInsert(@, insert_index,
                                [ptr |-> event.data.ptr, value |-> Some(event.data.value)])]
    ELSE LET index == index_of_v_ptr(crdt, event.data.ptr)
         IN  IF index = None THEN Panicked
             ELSE [crdt EXCEPT !.elements[index[1] + 1].value = None]

(***************************************************************************)
(* causal_or_set: ORSet. elements is the HashSet of (value, version)       *)
(* pairs; a version is found in a HashSet<VTime> when an equal one is in   *)
(* it (every version in the sets is a clone of its event's version).       *)
(***************************************************************************)
\* ORSet::default
ORSetDefault == [type |-> "ORSet", elements |-> {}]

\* ORSet::query: the BinarySet of the (value, version) pairs
ORSetQuery(crdt) == crdt.elements

\* ORSet::prepare
ORSetPrepare(crdt, command) ==
    IF command.cmd = "Add"
    THEN [op |-> "Added", value |-> command.value]
    ELSE [op |-> "Removed",
          versions |-> {el.version : el \in {x \in crdt.elements : x.value = command.value}}]

\* An effect whose Removed empties the set
ORSetEffectClearing(crdt, event) ==
    IF event.data.op = "Added"
    THEN [crdt EXCEPT !.elements = @ \cup {[value |-> event.data.value,
                                            version |-> event.version]}]
    ELSE [crdt EXCEPT !.elements = {}]

\* ORSet::effect
ORSetEffect(crdt, event) ==
    IF event.data.op = "Added"
    THEN [crdt EXCEPT !.elements = @ \cup {[value |-> event.data.value,
                                            version |-> event.version]}]
    ELSE [crdt EXCEPT !.elements = {el \in @ : el.version \notin event.data.versions}]

(***************************************************************************)
(* causal_core: the CRDT trait. A replica is generic in its CRDT; a call   *)
(* of self.crdt.query / prepare / effect runs the implementation of the    *)
(* CRDT the replica was created with. A panic inside an implementation     *)
(* (an expect() that fails) is the value Panicked, which every later call  *)
(* hands on: the handler that made the call does not complete.             *)
(***************************************************************************)
\* CRDT::query
query(crdt) ==
    CASE crdt.type = "Counter" -> CounterQuery(crdt)
      [] crdt.type = "LSeq" -> LSeqQuery(crdt)
      [] crdt.type = "RGA" -> RGAQuery(crdt)
      [] crdt.type = "ORSet" -> ORSetQuery(crdt)
      [] OTHER -> Panicked

\* CRDT::prepare
prepare(crdt, command) ==
    CASE crdt.type = "Counter" -> CounterPrepare(crdt, command)
      [] crdt.type = "LSeq" -> LSeqPrepare(crdt, command)
      [] crdt.type = "RGA" -> RGAPrepare(crdt, command)
      [] crdt.type = "ORSet" -> ORSetPrepare(crdt, command)
      [] OTHER -> Panicked

\* CRDT::effect
effect(crdt, event) ==
    CASE crdt.type = "Counter" -> CounterEffect(crdt, event)
      [] crdt.type = "LSeq" -> LSeqEffect(crdt, event)
      [] crdt.type = "RGA" -> RGAEffect(crdt, event)
      [] crdt.type = "ORSet" -> ORSetEffect(crdt, event)
      [] OTHER -> Panicked

(***************************************************************************)
(* causal_impl: InMemory event store                                       *)
(***************************************************************************)
\* InMemory::create
InMemoryCreate == [last_snapshot |-> None, events |-> << >>]

\* InMemory::save_events
save_events(store, events) == [store EXCEPT !.events = store.events \o events]

\* A load that leaves out the events at start_seq_nr itself
load_events_after(store, start_seq_nr) ==
    SelectSeq(store.events, LAMBDA event : event.local_seq_nr > start_seq_nr)

\* InMemory::load_events
load_events(store, start_seq_nr) ==
    SelectSeq(store.events, LAMBDA event : event.local_seq_nr >= start_seq_nr)

\* InMemory::save_snapshot
save_snapshot(store, state) == [store EXCEPT !.last_snapshot = Some(state)]

\* InMemory::load_snapshot
load_snapshot(store) == store.last_snapshot

(***************************************************************************)
(* causal_core: ReplicaState                                               *)
(***************************************************************************)
\* ReplicaState::create
create(id, crdt) ==
    [id |-> id, seq_nr |-> 0, version |-> init, observed |-> EmptyMap, crdt |-> crdt]

\* ReplicaState::process_event
process_event(S, event) ==
    [id |-> S.id,
     seq_nr |-> Max(S.seq_nr, event.local_seq_nr),
     version |-> merge(S.version, S.id, event.version),
     observed |-> Insert(S.observed, event.origin, event.origin_seq_nr),
     crdt |-> effect(S.crdt, event)]

\* A process_command whose event carries the version before the increment
process_command_stale(S, command) ==
    LET seq_nr == S.seq_nr + 1
        version == increment(S.version, S.id)
        event == [origin |-> S.id,
                  origin_seq_nr |-> seq_nr,
                  local_seq_nr |-> seq_nr,
                  version |-> S.version,
                  data |-> prepare(S.crdt, command)]
    IN  [state |-> [id |-> S.id, seq_nr |-> seq_nr, version |-> version,
                    observed |-> S.observed, crdt |-> effect(S.crdt, event)],
         saved |-> <<event>>]

\* ReplicaState::process_command: the new state and the event it saves
process_command(S, command) ==
    LET seq_nr == S.seq_nr + 1
        version == increment(S.version, S.id)
        event == [origin |-> S.id,
                  origin_seq_nr |-> seq_nr,
                  local_seq_nr |-> seq_nr,
                  version |-> version,
                  data |-> prepare(S.crdt, command)]
    IN  [state |-> [id |-> S.id, seq_nr |-> seq_nr, version |-> version,
                    observed |-> S.observed, crdt |-> effect(S.crdt, event)],
         saved |-> <<event>>]

\* A Sync whose cursor skips the event next to the last one observed
process_sync_skipping(S, replica_id) ==
    [sender |-> S.id, seq_nr |-> Get(S.observed, replica_id) + 2, version |-> S.version]

\* ReplicaState::process_sync
process_sync(S, replica_id) ==
    [sender |-> S.id, seq_nr |-> Get(S.observed, replica_id) + 1, version |-> S.version]

RECURSIVE max_local_seq_nr(_)
max_local_seq_nr(events) ==
    IF events = << >> THEN 0
    ELSE Max(Head(events).local_seq_nr, max_local_seq_nr(Tail(events)))

\* A replay that ships the events later than the requester's version only, not
\* the concurrent ones
process_replay_greater(S, seq_nr, version, store) ==
    LET loaded == load_events(store, seq_nr)
    IN  [sender |-> S.id,
         last_seq_nr |-> max_local_seq_nr(loaded),
         events |-> SelectSeq(loaded, LAMBDA event :
                        compare(event.version, version) = "Greater")]

\* A replay whose last_seq_nr is taken over the events it ships only
process_replay_shipped(S, seq_nr, version, store) ==
    LET loaded == load_events(store, seq_nr)
        events == SelectSeq(loaded, LAMBDA event :
                        compare(event.version, version) \in {"Greater", "Concurrent"})
    IN  [sender |-> S.id,
         last_seq_nr |-> max_local_seq_nr(events),
         events |-> events]

\* ReplicaState::process_replay
process_replay(S, seq_nr, version, store) ==
    LET loaded == load_events(store, seq_nr)
    IN  [sender |-> S.id,
         last_seq_nr |-> max_local_seq_nr(loaded),
         events |-> SelectSeq(loaded, LAMBDA event :
                        compare(event.version, version) \in {"Greater", "Concurrent"})]

\* An unseen that counts a missing observed entry as 0
unseen_missing_as_zero(S, event) ==
    IF event.origin_seq_nr > Get(S.observed, event.origin)
    THEN TRUE
    ELSE compare(event.version, S.version) \in {"Greater", "Concurrent"}

\* ReplicaState::unseen
unseen(S, event) ==
    IF /\ event.origin \in DOMAIN S.observed
       /\ event.origin_seq_nr > S.observed[event.origin]
    THEN TRUE
    ELSE compare(event.version, S.version) \in {"Greater", "Concurrent"}

\* The body of the map closure of process_replicated, folded over the unseen
\* events: S carries self.version, self.observed and self.crdt, all mutated in
\* place; self.seq_nr is only read.
RECURSIVE apply_unseen(_, _, _, _)
apply_unseen(S, sender, remote_seq_nr, events) ==
    IF events = << >> THEN S
    ELSE LET event == Head(events)
             remote == Max(remote_seq_nr, event.local_seq_nr)
         IN  apply_unseen([S EXCEPT !.version = merge(S.version, S.id, event.version),
                                    !.observed = Insert(S.observed, sender, remote),
                                    !.crdt = effect(S.crdt, event)],
                          sender, remote, Tail(events))

\* A process_replicated that builds a new state when nothing is unseen, too
process_replicated_some(S, sender, events) ==
    LET unseen_events == SelectSeq(events, LAMBDA event : unseen(S, event))
        seq_nr == S.seq_nr + 1
        after == apply_unseen(S, sender, Get(S.observed, sender), unseen_events)
    IN  [new_state |-> Some([after EXCEPT !.seq_nr = seq_nr]),
         saved |-> [i \in 1 .. Len(unseen_events) |->
                        [unseen_events[i] EXCEPT !.local_seq_nr = seq_nr]]]

\* ReplicaState::process_replicated: new_state (an Option) and the events saved.
\* Every new event takes self.seq_nr + 1, self.seq_nr being the one before the call.
process_replicated(S, sender, events) ==
    LET unseen_events == SelectSeq(events, LAMBDA event : unseen(S, event))
        seq_nr == S.seq_nr + 1
        after == apply_unseen(S, sender, Get(S.observed, sender), unseen_events)
    IN  [new_state |-> IF unseen_events = << >> THEN None
                       ELSE Some([after EXCEPT !.seq_nr = seq_nr]),
         saved |-> [i \in 1 .. Len(unseen_events) |->
                        [unseen_events[i] EXCEPT !.local_seq_nr = seq_nr]]]

\* ReplicaState::process_query
process_query(S) == query(S.crdt)

(***************************************************************************)
(* causal_actix: Replica                                                   *)
(***************************************************************************)
RECURSIVE replay_events(_, _)
replay_events(state, events) ==
    IF events = << >> THEN state
    ELSE replay_events(process_event(state, Head(events)), Tail(events))

\* A load that replays from the snapshot's own seq_nr, the events the snapshot
\* already holds included
load_state_from_seq_nr(id, crdt, store) ==
    LET snapshot == load_snapshot(store)
        state == IF snapshot = None THEN create(id, crdt) ELSE snapshot[1]
    IN  replay_events(state, load_events(store, state.seq_nr))

\* Replica::load_state, of a replica with init_id = id and init_crdt = crdt
load_state(id, crdt, store) ==
    LET snapshot == load_snapshot(store)
        state == IF snapshot = None THEN create(id, crdt) ELSE snapshot[1]
    IN  replay_events(state, load_events(store, state.seq_nr + 1))

Replicate(to, sender, seq_nr, version) ==
    [type |-> "Replicate", to |-> to, sender |-> sender, seq_nr |-> seq_nr,
     version |-> version, events |-> << >>]

Replicated(to, sender, last_seq_nr, events) ==
    [type |-> "Replicated", to |-> to, sender |-> sender, seq_nr |-> last_seq_nr,
     version |-> EmptyMap, events |-> events]

Send(box, msgs) == box (+) SetToBag(msgs)

Receive(box, m) == box (-) SetToBag({m})

\* No call made yet on the clocks held outside the replicas
NoCall == [op |-> "init", replica_id |-> 0, self |-> init, other |-> init, out |-> init]

\* LSeqReceiver::new
LSeqReceiverNew(replica_id) == [replica_id |-> replica_id, commands |-> << >>]

\* No editor open
NoInput ==
    /\ input_field = [cursor_position |-> 0, value |-> << >>]
    /\ receiver = LSeqReceiverNew(0)
    /\ start_string = << >>
    /\ reading = FALSE
    /\ keys_left = 0

\* Two clocks fresh from VectorClock::init
NewClocks ==
    /\ clock_1 = init
    /\ clock_2 = init
    /\ clock_op = NoCall

\* Replica::create(id, crdt[id], InMemory::create()) for every id, then started()
Started(crdt) ==
    /\ init_crdt = crdt
    /\ event_store = [r \in Replicas |-> InMemoryCreate]
    /\ replica_state = [r \in Replicas |-> load_state(r, crdt[r], InMemoryCreate)]
    /\ replicating_nodes = [r \in Replicas |-> {}]
    /\ mailbox = EmptyBag
    /\ alive = [r \in Replicas |-> TRUE]
    /\ starts = [r \in Replicas |-> 1]
    /\ NewClocks

\* Replica::create and Actor::started (load_state on the empty store)
Init ==
    /\ Started([r \in Replicas |-> CounterDefault])
    /\ NoInput
    /\ budget = [commands |-> MaxCommands, syncs |-> MaxSyncs,
                 restarts |-> 0, snapshots |-> 0]

\* The same start, the environment also saving snapshots and restarting replicas
InitRestart ==
    /\ Started([r \in Replicas |-> CounterDefault])
    /\ NoInput
    /\ budget = [commands |-> MaxCommands, syncs |-> MaxSyncsRestart,
                 restarts |-> MaxRestarts, snapshots |-> MaxSnapshots]

\* The value a replica's editor inserts
Values == <<"A", "B", "C">>

\* The LSeqCommands LSeqReceiver builds at replica r: insert_at a position of the
\* text (its end included) with the replica's own id, remove_at a position of it
LSeqCommands(r) ==
    LET len == Len(replica_state[r].crdt.elements)
    IN  {[cmd |-> "Insert", index |-> i, replica_id |-> r, value |-> Values[r + 1]] :
            i \in 0 .. len}
        \cup {[cmd |-> "Remove", index |-> i] : i \in 0 .. (len - 1)}

\* The RGACommands on the text a Query of replica r shows: Insert at a position
\* of it (its end included), Remove at a position of it
RGACommands(r) ==
    LET len == Len(RGAQuery(replica_state[r].crdt))
    IN  {[cmd |-> "Insert", index |-> i, value |-> Values[r + 1]] : i \in 0 .. len}
        \cup {[cmd |-> "Remove", index |-> i] : i \in 0 .. (len - 1)}

\* The SetCommands: Add or Remove of a value
ORSetCommands ==
    {[cmd |-> "Add", value |-> v] : v \in {"x", "y"}}
    \cup {[cmd |-> "Remove", value |-> v] : v \in {"x", "y"}}

\* The Command messages the environment sends a replica
Commands(r) ==
    CASE init_crdt[r].type = "Counter" -> {"Increment"}
      [] init_crdt[r].type = "LSeq" -> LSeqCommands(r)
      [] init_crdt[r].type = "RGA" -> RGACommands(r)
      [] init_crdt[r].type = "ORSet" -> ORSetCommands
      [] OTHER -> {}

\* Replica::handle_command
handle_command(r, command) ==
    /\ alive[r]
    /\ budget.commands > 0
    /\ budget' = [budget EXCEPT !.commands = @ - 1]
    /\ LET res == process_command(replica_state[r], command)
       IN  /\ replica_state' = [replica_state EXCEPT ![r] = res.state]
           /\ event_store' = [event_store EXCEPT ![r] = save_events(@, res.saved)]
    /\ UNCHANGED <<replicating_nodes, mailbox, alive, starts, init_crdt>>
    /\ UNCHANGED clock_vars
    /\ UNCHANGED input_vars

\* Replica::handle_connect
handle_connect(r, replica_id) ==
    /\ alive[r]
    /\ replica_id # r
    /\ replicating_nodes' = [replicating_nodes EXCEPT ![r] = @ \cup {replica_id}]
    /\ UNCHANGED <<replica_state, event_store, mailbox, alive, starts, init_crdt, budget>>
    /\ UNCHANGED clock_vars
    /\ UNCHANGED input_vars

\* Replica::handle_sync
handle_sync(r) ==
    /\ alive[r]
    /\ budget.syncs > 0
    /\ budget' = [budget EXCEPT !.syncs = @ - 1]
    /\ mailbox' = Send(mailbox,
            {LET req == process_sync(replica_state[r], p)
             IN  Replicate(p, req.sender, req.seq_nr, req.version)
             : p \in replicating_nodes[r]})
    /\ UNCHANGED <<replica_state, event_store, replicating_nodes, alive, starts, init_crdt>>
    /\ UNCHANGED clock_vars
    /\ UNCHANGED input_vars

\* Replica::handle_replicate; the expect() on the directory lookup panics
\* when the requester is not in it.
handle_replicate(r, m) ==
    /\ alive[r]
    /\ m.type = "Replicate" /\ m.to = r
    /\ LET res == process_replay(replica_state[r], m.seq_nr, m.version, event_store[r])
       IN  IF m.sender \in replicating_nodes[r]
           THEN /\ mailbox' = Send(Receive(mailbox, m),
                                   {Replicated(m.sender, res.sender, res.last_seq_nr, res.events)})
                /\ UNCHANGED alive
           ELSE /\ mailbox' = Receive(mailbox, m)
                /\ alive' = [alive EXCEPT ![r] = FALSE]
    /\ UNCHANGED <<replica_state, event_store, replicating_nodes, starts, init_crdt, budget>>
    /\ UNCHANGED clock_vars
    /\ UNCHANGED input_vars

\* Replica::handle_replicated
handle_replicated(r, m) ==
    /\ alive[r]
    /\ m.type = "Replicated" /\ m.to = r
    /\ LET res == process_replicated(replica_state[r], m.sender, m.events)
       IN  IF res.new_state # None /\ res.new_state[1].crdt = Panicked
           THEN \* an effect panicked inside process_replicated, before save_events
                /\ alive' = [alive EXCEPT ![r] = FALSE]
                /\ UNCHANGED <<replica_state, event_store>>
           ELSE /\ replica_state' = [replica_state EXCEPT ![r] =
                        IF res.new_state = None THEN @ ELSE res.new_state[1]]
                /\ event_store' = [event_store EXCEPT ![r] = save_events(@, res.saved)]
                /\ UNCHANGED alive
    /\ mailbox' = Receive(mailbox, m)
    /\ UNCHANGED <<replicating_nodes, starts, init_crdt, budget>>
    /\ UNCHANGED clock_vars
    /\ UNCHANGED input_vars

\* Replica::handle_query: prints process_query(), changes nothing
handle_query(r) ==
    /\ alive[r]
    /\ process_query(replica_state[r]) = query(replica_state[r].crdt)
    /\ UNCHANGED vars

\* start() of main.rs sends every replica the Connect messages of all the others
\* before any other message is sent to anyone, and an actor handles its mailbox
\* in order: a replica handles them before its first other message.
Ready(r) == replicating_nodes[r] = Replicas \ {r}

Next ==
    \E r \in Replicas :
        \/ \E p \in Replicas : handle_connect(r, p)
        \/ Ready(r) /\ \E command \in Commands(r) : handle_command(r, command)
        \/ Ready(r) /\ handle_sync(r)
        \/ Ready(r) /\ \E m \in BagToSet(mailbox) : handle_replicate(r, m)
        \/ Ready(r) /\ \E m \in BagToSet(mailbox) : handle_replicated(r, m)
        \/ Ready(r) /\ handle_query(r)

Spec == Init /\ [][Next]_vars

\* The replicas used as a library: Connect messages handled at any time
NextOpen ==
    \E r \in Replicas :
        \/ \E p \in Replicas : handle_connect(r, p)
        \/ \E command \in Commands(r) : handle_command(r, command)
        \/ handle_sync(r)
        \/ \E m \in BagToSet(mailbox) : handle_replicate(r, m)
        \/ \E m \in BagToSet(mailbox) : handle_replicated(r, m)
        \/ handle_query(r)

InitOpen ==
    /\ Started([r \in Replicas |-> CounterDefault])
    /\ NoInput
    /\ budget = [commands |-> MaxCommands, syncs |-> MaxSyncsOpen,
                 restarts |-> 0, snapshots |-> 0]

SpecOpen == InitOpen /\ [][NextOpen]_vars

(***************************************************************************)
(* Two replicas that have handled each other's Connect and exchange events *)
(* of their CRDT; the third stays idle.                                    *)
(***************************************************************************)
Pair == {0, 1}

StartedPair(crdt) ==
    /\ init_crdt = crdt
    /\ event_store = [r \in Replicas |-> InMemoryCreate]
    /\ replica_state = [r \in Replicas |-> load_state(r, crdt[r], InMemoryCreate)]
    /\ replicating_nodes = [r \in Replicas |-> IF r \in Pair THEN Pair \ {r} ELSE {}]
    /\ mailbox = EmptyBag
    /\ alive = [r \in Replicas |-> TRUE]
    /\ starts = [r \in Replicas |-> 1]
    /\ NewClocks
    /\ NoInput

NextPair ==
    \E r \in Pair :
        \/ \E command \in Commands(r) : handle_command(r, command)
        \/ handle_sync(r)
        \/ \E m \in BagToSet(mailbox) : handle_replicate(r, m)
        \/ \E m \in BagToSet(mailbox) : handle_replicated(r, m)
        \/ handle_query(r)

InitLSeq ==
    /\ StartedPair([r \in Replicas |-> LSeqDefault])
    /\ budget = [commands |-> MaxCommandsLSeq, syncs |-> MaxSyncsLSeq,
                 restarts |-> 0, snapshots |-> 0]

SpecLSeq == InitLSeq /\ [][NextPair]_vars

InitRGA ==
    /\ StartedPair([r \in Replicas |-> RGADefault(r)])
    /\ budget = [commands |-> MaxCommandsRGA, syncs |-> MaxSyncsRGA,
                 restarts |-> 0, snapshots |-> 0]

SpecRGA == InitRGA /\ [][NextPair]_vars

InitORSet ==
    /\ StartedPair([r \in Replicas |-> ORSetDefault])
    /\ budget = [commands |-> MaxCommandsORSet, syncs |-> MaxSyncsORSet,
                 restarts |-> 0, snapshots |-> 0]

SpecORSet == InitORSet /\ [][NextPair]_vars

\* Actor::started run again on the replica's store (a supervisor's restart): the
\* state in memory is replaced by load_state(); the store, the directory and the
\* messages in flight stay.
restart(r) ==
    /\ budget.restarts > 0
    /\ budget' = [budget EXCEPT !.restarts = @ - 1]
    /\ LET loaded == load_state(r, init_crdt[r], event_store[r])
       IN  /\ replica_state' = [replica_state EXCEPT ![r] = loaded]
           /\ alive' = [alive EXCEPT ![r] = (loaded.crdt # Panicked)]
    /\ starts' = [starts EXCEPT ![r] = @ + 1]
    /\ UNCHANGED <<event_store, replicating_nodes, mailbox, init_crdt>>
    /\ UNCHANGED clock_vars
    /\ UNCHANGED input_vars

\* EventStore::save_snapshot of the replica's state, between two handlers
snapshot(r) ==
    /\ alive[r]
    /\ budget.snapshots > 0
    /\ budget' = [budget EXCEPT !.snapshots = @ - 1]
    /\ event_store' = [event_store EXCEPT ![r] = save_snapshot(@, replica_state[r])]
    /\ UNCHANGED <<replica_state, replicating_nodes, mailbox, alive, starts, init_crdt>>
    /\ UNCHANGED clock_vars
    /\ UNCHANGED input_vars

NextRestart ==
    \/ Next
    \/ \E r \in Replicas : restart(r)
    \/ \E r \in Replicas : snapshot(r)

SpecRestart == InitRestart /\ [][NextRestart]_vars

(***************************************************************************)
(* The start of the scenario in the comment of ReplicaState::unseen: three *)
(* connected replicas (0, 1, 2 here; 1, 2, 3 in the comment), the first    *)
(* has created event A, the second has pulled it from the first, the third *)
(* is empty.                                                               *)
(***************************************************************************)
InitUnseen ==
    LET created == process_command(create(0, CounterDefault), "Increment")
        pulled == process_replicated(create(1, CounterDefault), 0, created.saved)
    IN  /\ init_crdt = [r \in Replicas |-> CounterDefault]
        /\ replica_state = [r \in Replicas |->
                CASE r = 0 -> created.state
                  [] r = 1 -> pulled.new_state[1]
                  [] OTHER -> create(r, CounterDefault)]
        /\ event_store = [r \in Replicas |->
                CASE r = 0 -> save_events(InMemoryCreate, created.saved)
                  [] r = 1 -> save_events(InMemoryCreate, pulled.saved)
                  [] OTHER -> InMemoryCreate]
        /\ replicating_nodes = [r \in Replicas |-> Replicas \ {r}]
        /\ mailbox = EmptyBag
        /\ alive = [r \in Replicas |-> TRUE]
        /\ starts = [r \in Replicas |-> 1]
        /\ NewClocks
        /\ NoInput
        /\ budget = [commands |-> MaxCommandsUnseen, syncs |-> MaxSyncsUnseen,
                     restarts |-> 0, snapshots |-> 0]

SpecUnseen == InitUnseen /\ [][Next]_vars

(***************************************************************************)
(* causal_time used on its own, as its tests module does: two clocks made  *)
(* by init, then increment, merge and compare called on either with the    *)
(* other as argument. clock_op records the last call: the receiver before  *)
(* it (self), the argument (other) and the receiver after it or the        *)
(* ClockComparison returned (out).                                         *)
(***************************************************************************)
\* VectorClock::replicas: the keys in the order the HashMap iterates them, which
\* is any order
replicas(vector) ==
    LET n == Cardinality(DOMAIN vector)
    IN  {keys \in [1 .. n -> DOMAIN vector] :
            \A i, j \in 1 .. n : i # j => keys[i] # keys[j]}

\* Itertools::unique: every key once, at its first place
RECURSIVE unique(_)
unique(keys) ==
    IF keys = << >> THEN << >>
    ELSE LET rest == unique(SubSeq(keys, 1, Len(keys) - 1))
             last == keys[Len(keys)]
         IN  IF \E i \in DOMAIN rest : rest[i] = last THEN rest ELSE Append(rest, last)

\* The ClockComparisons VectorClock::compare can return: the fold over
\* self.replicas().chain(other_vector.replicas()).unique(), for every order of
\* the two key iterators
compare_results(vector, other_vector) ==
    {compare_fold("Equal", unique(self_keys \o other_keys), vector, other_vector) :
        self_keys \in replicas(vector), other_keys \in replicas(other_vector)}

\* clock.increment(replica_id)
clock_increment(replica_id) ==
    /\ \/ /\ Get(clock_1, replica_id) < MaxClock
          /\ clock_1' = increment(clock_1, replica_id)
          /\ clock_op' = [op |-> "increment", replica_id |-> replica_id,
                          self |-> clock_1, other |-> init, out |-> clock_1']
          /\ UNCHANGED clock_2
       \/ /\ Get(clock_2, replica_id) < MaxClock
          /\ clock_2' = increment(clock_2, replica_id)
          /\ clock_op' = [op |-> "increment", replica_id |-> replica_id,
                          self |-> clock_2, other |-> init, out |-> clock_2']
          /\ UNCHANGED clock_1
    /\ UNCHANGED replica_vars
    /\ UNCHANGED input_vars

\* clock.merge(replica_id, &other)
clock_merge(replica_id) ==
    /\ \/ /\ clock_1' = merge(clock_1, replica_id, clock_2)
          /\ clock_op' = [op |-> "merge", replica_id |-> replica_id,
                          self |-> clock_1, other |-> clock_2, out |-> clock_1']
          /\ UNCHANGED clock_2
       \/ /\ clock_2' = merge(clock_2, replica_id, clock_1)
          /\ clock_op' = [op |-> "merge", replica_id |-> replica_id,
                          self |-> clock_2, other |-> clock_1, out |-> clock_2']
          /\ UNCHANGED clock_1
    /\ UNCHANGED replica_vars
    /\ UNCHANGED input_vars

\* clock.compare(&other)
clock_compare ==
    /\ \/ \E result \in compare_results(clock_1, clock_2) :
             clock_op' = [op |-> "compare", replica_id |-> 0,
                          self |-> clock_1, other |-> clock_2, out |-> result]
       \/ \E result \in compare_results(clock_2, clock_1) :
             clock_op' = [op |-> "compare", replica_id |-> 0,
                          self |-> clock_2, other |-> clock_1, out |-> result]
    /\ UNCHANGED <<clock_1, clock_2>>
    /\ UNCHANGED replica_vars
    /\ UNCHANGED input_vars

\* The replicas are created and idle
InitClock ==
    /\ Started([r \in Replicas |-> CounterDefault])
    /\ NoInput
    /\ budget = [commands |-> 0, syncs |-> 0, restarts |-> 0, snapshots |-> 0]

NextClock ==
    \/ \E replica_id \in Replicas : clock_increment(replica_id)
    \/ \E replica_id \in Replicas : clock_merge(replica_id)
    \/ clock_compare

SpecClock == InitClock /\ [][NextClock]_vars

(***************************************************************************)
(* causal_console: InputField, and the LSeqReceiver it reports its edits   *)
(* to. A text is the sequence of its characters (all of one byte);         *)
(* positions count from 0 as in the code.                                  *)
(***************************************************************************)
MaxKeys == 4

MaxText == 2

\* The characters of the texts and of the keys
Characters == {"a", "b"}

\* The texts an editor is opened on
RECURSIVE Texts(_)
Texts(length) ==
    IF length = 0 THEN {<< >>}
    ELSE Texts(length - 1)
         \cup {Append(text, character) : text \in {t \in Texts(length - 1) : Len(t) = length - 1},
                                         character \in Characters}

\* LSeqReceiver::insert_at
insert_at(self, position, character) ==
    [self EXCEPT !.commands = Append(@, [cmd |-> "Insert", index |-> position,
                                         replica_id |-> self.replica_id,
                                         value |-> character])]

\* LSeqReceiver::remove_at
remove_at(self, position) ==
    [self EXCEPT !.commands = Append(@, [cmd |-> "Remove", index |-> position])]

\* InputField::cursor_backward
cursor_backward(self) ==
    IF self.cursor_position > 0
    THEN [self EXCEPT !.cursor_position = @ - 1]
    ELSE self

\* InputField::cursor_forward
cursor_forward(self) ==
    IF self.cursor_position < Len(self.value)
    THEN [self EXCEPT !.cursor_position = @ + 1]
    ELSE self

\* InputField::insert
InputFieldInsert(self, character) ==
    [self EXCEPT !.value = VecInsert(@, self.cursor_position, character),
                 !.cursor_position = @ + 1]

\* InputField::remove
InputFieldRemove(self) ==
    IF self.cursor_position > 0
    THEN [self EXCEPT !.value = VecRemove(@, self.cursor_position - 1),
                      !.cursor_position = @ - 1]
    ELSE self

\* term.read_key() of the loop of InputField::render delivers a key
read_key ==
    /\ reading
    /\ keys_left > 0
    /\ keys_left' = keys_left - 1
    /\ UNCHANGED start_string
    /\ UNCHANGED replica_vars
    /\ UNCHANGED clock_vars

\* Key::ArrowLeft
key_arrow_left ==
    /\ read_key
    /\ input_field' = cursor_backward(input_field)
    /\ UNCHANGED <<receiver, reading>>

\* Key::ArrowRight
key_arrow_right ==
    /\ read_key
    /\ input_field' = cursor_forward(input_field)
    /\ UNCHANGED <<receiver, reading>>

\* Key::Char(character)
key_char(character) ==
    /\ read_key
    /\ receiver' = insert_at(receiver, input_field.cursor_position, character)
    /\ input_field' = InputFieldInsert(input_field, character)
    /\ UNCHANGED reading

\* Key::Backspace
key_backspace ==
    /\ read_key
    /\ receiver' = remove_at(receiver, input_field.cursor_position)
    /\ input_field' = InputFieldRemove(input_field)
    /\ UNCHANGED reading

\* Key::Enter: break
key_enter ==
    /\ read_key
    /\ reading' = FALSE
    /\ UNCHANGED <<input_field, receiver>>

\* any other key
key_other ==
    /\ read_key
    /\ UNCHANGED <<input_field, receiver, reading>>

\* InputField::start(string, &mut receiver) on a text, the receiver fresh from
\* LSeqReceiver::new; the replicas are created and idle
InitInput ==
    /\ Started([r \in Replicas |-> LSeqDefault])
    /\ budget = [commands |-> 0, syncs |-> 0, restarts |-> 0, snapshots |-> 0]
    /\ start_string \in Texts(MaxText)
    /\ input_field = [cursor_position |-> 0, value |-> start_string]
    /\ receiver = LSeqReceiverNew(0)
    /\ reading = TRUE
    /\ keys_left = MaxKeys

NextInput ==
    \/ key_arrow_left
    \/ key_arrow_right
    \/ \E character \in Characters : key_char(character)
    \/ key_backspace
    \/ key_enter
    \/ key_other

SpecInput == InitInput /\ [][NextInput]_vars

(***************************************************************************)
(* What the properties speak of.                                           *)
(***************************************************************************)
\* The events applied at a replica, in the order it applied them: every applied
\* event is appended to its store by the handler that applied it.
Log(r) == event_store[r].events

\* An event's global identity
EventId(event) == <<event.origin, event.origin_seq_nr>>

AppliedIds(r) == {EventId(Log(r)[i]) : i \in DOMAIN Log(r)}

\* Every event created so far (an event is in its origin's log from its creation)
AllEvents == UNION {{Log(r)[i] : i \in DOMAIN Log(r)} : r \in Replicas}

\* The partial order on vector clocks, a missing key counting as 0
VLeq(v, w) == \A k \in DOMAIN v : Get(v, k) <= Get(w, k)

VLess(v, w) == VLeq(v, w) /\ ~VLeq(w, v)

\* Replica r applied its events in an order compatible with causality
CausalLog(r) ==
    \A j \in DOMAIN Log(r) : \A e \in AllEvents :
        VLess(e.version, Log(r)[j].version) =>
            \E i \in 1 .. (j - 1) : EventId(Log(r)[i]) = EventId(e)

Mesh == \A r \in Replicas : Ready(r)

\* No message in flight, every replica running and connected to every other
Quiescent == mailbox = EmptyBag /\ Mesh /\ \A r \in Replicas : alive[r]

\* A Sync at any replica, its Replicate and Replicated messages delivered, would
\* apply nothing: no number of further Sync rounds changes any replica.
SyncRoundChangesNothing ==
    \A r \in Replicas : \A p \in replicating_nodes[r] :
        LET req == process_sync(replica_state[r], p)
            res == process_replay(replica_state[p], req.seq_nr, req.version, event_store[p])
        IN  process_replicated(replica_state[r], p, res.events).new_state = None

(***************************************************************************)
(* C1. Convergence: two replicas that have applied the same set of events, *)
(* each in an order compatible with causality, answer query() alike.       *)
(***************************************************************************)
Convergence ==
    \A r1, r2 \in Replicas :
        (AppliedIds(r1) = AppliedIds(r2) /\ CausalLog(r1) /\ CausalLog(r2)) =>
            process_query(replica_state[r1]) = process_query(replica_state[r2])

(***************************************************************************)
(* C2. Eventual consistency: once the connected replicas are quiescent and *)
(* further Sync rounds change nothing, all of them have applied the same   *)
(* events and answer query() alike.                                        *)
(***************************************************************************)
EventualConsistency ==
    (Quiescent /\ SyncRoundChangesNothing) =>
        \A r1, r2 \in Replicas :
            /\ AppliedIds(r1) = AppliedIds(r2)
            /\ process_query(replica_state[r1]) = process_query(replica_state[r2])

(***************************************************************************)
(* C3. Duplicate delivery is idempotent: a Replicated message handled a    *)
(* second time applies no event and leaves state and store as they were.   *)
(***************************************************************************)
DuplicateDeliveryIdempotent ==
    \A m \in BagToSet(mailbox) :
        m.type = "Replicated" =>
            LET S == replica_state[m.to]
                once == process_replicated(S, m.sender, m.events)
                S1 == IF once.new_state = None THEN S ELSE once.new_state[1]
                twice == process_replicated(S1, m.sender, m.events)
            IN  twice.new_state = None /\ twice.saved = << >>

(***************************************************************************)
(* C4. No duplicate apply: no replica's log holds two events of the same   *)
(* (origin, origin_seq_nr).                                                *)
(***************************************************************************)
NoDuplicateApply ==
    \A r \in Replicas : \A i, j \in DOMAIN Log(r) :
        EventId(Log(r)[i]) = EventId(Log(r)[j]) => i = j

(***************************************************************************)
(* C5. Causal delivery: when an event is applied at a replica, every event *)
(* of a strictly smaller version has been applied there before.            *)
(***************************************************************************)
CausalDelivery == \A r \in Replicas : CausalLog(r)

\* a replica has applied, in this order, two causally ordered events of the two
\* other replicas
CausalDeliveryWitness ==
    \E r \in Replicas : \E i, j \in DOMAIN Log(r) :
        /\ i < j
        /\ VLess(Log(r)[i].version, Log(r)[j].version)
        /\ Cardinality({r, Log(r)[i].origin, Log(r)[j].origin}) = 3

(***************************************************************************)
(* C6. The local log is contiguous: the local_seq_nr of the events of a    *)
(* replica's store are 1, 2, .., seq_nr in append order.                   *)
(***************************************************************************)
LogContiguous ==
    \A r \in Replicas :
        /\ Len(Log(r)) = replica_state[r].seq_nr
        /\ \A i \in DOMAIN Log(r) : Log(r)[i].local_seq_nr = i

(***************************************************************************)
(* C7. seq_nr never decreases, across any handler and across a restart.    *)
(***************************************************************************)
SeqNrMonotone ==
    [][\A r \in Replicas : replica_state'[r].seq_nr >= replica_state[r].seq_nr]_vars

\* a replica restarted from a snapshot and replayed an event of its own that it
\* created after the snapshot (only process_event, the replay, puts the replica's
\* own id into observed)
SeqNrMonotoneWitness ==
    \E r \in Replicas :
        /\ starts[r] = 2
        /\ event_store[r].last_snapshot # None
        /\ event_store[r].last_snapshot[1].seq_nr >= 1
        /\ Get(replica_state[r].observed, r) > event_store[r].last_snapshot[1].seq_nr

(***************************************************************************)
(* C8. Observed reflects applied: observed[e.origin] >= e.origin_seq_nr    *)
(* for every event e applied at the replica, a missing key counting as 0.  *)
(***************************************************************************)
ObservedReflectsApplied ==
    \A r \in Replicas : \A i \in DOMAIN Log(r) :
        Get(replica_state[r].observed, Log(r)[i].origin) >= Log(r)[i].origin_seq_nr

(***************************************************************************)
(* C9. Version dominates: a replica's version is pointwise >= the version  *)
(* of every event applied at it.                                           *)
(***************************************************************************)
VersionDominates ==
    \A r \in Replicas : \A i \in DOMAIN Log(r) :
        VLeq(Log(r)[i].version, replica_state[r].version)

\* a restarted replica that replayed an event of its own and holds an event of
\* another replica
VersionDominatesWitness ==
    \E r \in Replicas :
        /\ starts[r] = 2
        /\ r \in DOMAIN replica_state[r].observed
        /\ \E i \in DOMAIN Log(r) : Log(r)[i].origin # r

(***************************************************************************)
(* C10. A replica that has produced an event has version[id] = seq_nr.     *)
(***************************************************************************)
OwnVersionIsSeqNr ==
    \A r \in Replicas :
        (\E i \in DOMAIN Log(r) : Log(r)[i].origin = r) =>
            Get(replica_state[r].version, r) = replica_state[r].seq_nr

\* The step is a restart of replica r (Actor::started run again)
Restarted(r) == starts'[r] # starts[r]

(***************************************************************************)
(* C11. Snapshot recovery: a restart that loads a snapshot and replays the *)
(* events after it rebuilds a state equal in every field (seq_nr, version, *)
(* observed, crdt) to the live state it replaces.                          *)
(***************************************************************************)
SnapshotRecovery ==
    [][\A r \in Replicas :
        (Restarted(r) /\ load_snapshot(event_store[r]) # None) =>
            replica_state'[r] = replica_state[r]]_vars

(***************************************************************************)
(* C12. Replay after restart preserves the query: process_query after      *)
(* load_state gives the value it gave just before the restart, with or     *)
(* without a snapshot, for local commands and accepted batches.            *)
(***************************************************************************)
RestartPreservesQuery ==
    [][\A r \in Replicas :
        Restarted(r) =>
            process_query(replica_state'[r]) = process_query(replica_state[r])]_vars

\* a replica saved a snapshot, then accepted an event of a peer, then created an
\* event of its own, and was restarted after that (only the replay of that last
\* event puts its origin_seq_nr under the replica's own id into observed)
RestartPreservesQueryWitness ==
    \E r \in Replicas : \E i, j \in DOMAIN Log(r) :
        /\ starts[r] = 2
        /\ load_snapshot(event_store[r]) # None
        /\ i < j
        /\ Log(r)[i].origin # r
        /\ Log(r)[i].local_seq_nr > load_snapshot(event_store[r])[1].seq_nr
        /\ Log(r)[j].origin = r
        /\ r \in DOMAIN replica_state[r].observed
        /\ replica_state[r].observed[r] = Log(r)[j].origin_seq_nr
        /\ process_query(replica_state[r]) = 2

(***************************************************************************)
(* C20. UnknownPeer is recovered locally: a replica handling a Replicate   *)
(* of a requester that is not in its directory drops the request, sends no *)
(* Replicated, leaves its state and store as they are and keeps running.   *)
(***************************************************************************)
UnknownPeerRecovered ==
    [][\A r \in Replicas : \A m \in BagToSet(mailbox) :
        (handle_replicate(r, m) /\ m.sender \notin replicating_nodes[r]) =>
            /\ alive'[r]
            /\ mailbox' = Receive(mailbox, m)
            /\ replica_state'[r] = replica_state[r]
            /\ event_store'[r] = event_store[r]]_vars

(***************************************************************************)
(* C13. A MissingPredecessor never occurs under the replication protocol:  *)
(* no effect fails to find the ptr it references, so no replica is ever    *)
(* stopped by the expect() of an effect.                                   *)
(***************************************************************************)
NoMissingPredecessor == \A r \in Replicas : alive[r]

\* the positions of the elements of an LSeq that carry the ptr
LSeqPositions(crdt, ptr) == {i \in DOMAIN crdt.elements : LSeqPtrEq(ptr, crdt.elements[i].ptr)}

(***************************************************************************)
(* C14. LSeq: the effect of Removed(p) at a replica that has itself        *)
(* removed p already (a concurrent remove of the same element) is a no-op: *)
(* the sequence is unchanged and the replica does not fail.                *)
(***************************************************************************)
LSeqRemoveAbsentIsNoOp ==
    \A r \in Pair : \A e \in AllEvents :
        (/\ alive[r]
         /\ e.data.op = "Removed"
         /\ EventId(e) \notin AppliedIds(r)
         /\ \E i \in DOMAIN Log(r) :
                Log(r)[i].data.op = "Removed" /\ Log(r)[i].data.ptr = e.data.ptr
         /\ LSeqPositions(replica_state[r].crdt, e.data.ptr) = {})
        => effect(replica_state[r].crdt, e) = replica_state[r].crdt

(***************************************************************************)
(* C15. LSeq ptr generation: for the neighbours low and high of any gap of *)
(* a reachable LSeq (the empty sequence standing for a missing neighbour)  *)
(* and any owner, the ptr built by LSeqPtr::from lies strictly between     *)
(* them: low < r < high.                                                   *)
(***************************************************************************)
LSeqPtrBetween ==
    \A r \in Pair : \A owner \in Replicas :
        LET elements == replica_state[r].crdt.elements
        IN  \A index \in 0 .. Len(elements) :
                LET ptr == LSeqPrepare(replica_state[r].crdt,
                                       [cmd |-> "Insert", index |-> index,
                                        replica_id |-> owner, value |-> "A"]).ptr
                IN  /\ index > 0 => LSeqPtrLt(elements[index].ptr, ptr)
                    /\ index < Len(elements) => LSeqPtrLt(ptr, elements[index + 1].ptr)

(***************************************************************************)
(* C16. LSeq concurrent insert: two elements inserted concurrently by two  *)
(* replicas into the same gap (so with the same sequence) stand, at every  *)
(* replica that has applied both Inserted events, in the same order: the   *)
(* element of the smaller owner id first.                                  *)
(***************************************************************************)
LSeqConcurrentInsertOrder ==
    \A r \in Pair : \A e, f \in AllEvents :
        (/\ alive[r]
         /\ e.data.op = "Inserted" /\ f.data.op = "Inserted"
         /\ compare(e.version, f.version) = "Concurrent"
         /\ e.data.ptr.sequence = f.data.ptr.sequence
         /\ e.data.ptr.replica_id < f.data.ptr.replica_id
         /\ {EventId(e), EventId(f)} \subseteq AppliedIds(r))
        => \A i \in LSeqPositions(replica_state[r].crdt, e.data.ptr) :
               \A j \in LSeqPositions(replica_state[r].crdt, f.data.ptr) : i < j

\* the two replicas have applied two such Inserted events in opposite orders, and
\* both elements are still in both sequences
LSeqConcurrentInsertOrderWitness ==
    \E e, f \in AllEvents :
        /\ e.data.op = "Inserted" /\ f.data.op = "Inserted"
        /\ compare(e.version, f.version) = "Concurrent"
        /\ e.data.ptr.sequence = f.data.ptr.sequence
        /\ e.data.ptr.replica_id < f.data.ptr.replica_id
        /\ \A r \in Pair :
              /\ alive[r]
              /\ LSeqPositions(replica_state[r].crdt, e.data.ptr) # {}
              /\ LSeqPositions(replica_state[r].crdt, f.data.ptr) # {}
        /\ \E i, j \in DOMAIN Log(0) :
              i < j /\ EventId(Log(0)[i]) = EventId(e) /\ EventId(Log(0)[j]) = EventId(f)
        /\ \E i, j \in DOMAIN Log(1) :
              i < j /\ EventId(Log(1)[i]) = EventId(f) /\ EventId(Log(1)[j]) = EventId(e)

\* the positions of the elements of an RGA that carry the ptr
RGAPositions(crdt, ptr) == {i \in DOMAIN crdt.elements : crdt.elements[i].ptr = ptr}

\* e and f are Inserted events made concurrently after the same predecessor, the
\* at-ptr of e the smaller one
RGAConcurrentSiblings(e, f) ==
    /\ e.data.op = "Inserted" /\ f.data.op = "Inserted"
    /\ compare(e.version, f.version) = "Concurrent"
    /\ e.data.prev = f.data.prev
    /\ RGAPtrLt(e.data.ptr, f.data.ptr)

(***************************************************************************)
(* C17. RGA concurrent insert: at every replica that has applied two       *)
(* Inserted events made concurrently after the same predecessor, whatever  *)
(* the order it applied them in, the two elements stand after the          *)
(* predecessor in descending order of their at-ptrs; two replicas that     *)
(* have applied the same events hold the same physical list.               *)
(***************************************************************************)
RGAConcurrentInsertOrder ==
    /\ \A r \in Pair : \A e, f \in AllEvents :
            (/\ alive[r]
             /\ RGAConcurrentSiblings(e, f)
             /\ {EventId(e), EventId(f)} \subseteq AppliedIds(r))
            => \A p \in RGAPositions(replica_state[r].crdt, e.data.prev) :
               \A i \in RGAPositions(replica_state[r].crdt, e.data.ptr) :
               \A j \in RGAPositions(replica_state[r].crdt, f.data.ptr) :
                   p < j /\ j < i
    /\ \A r1, r2 \in Pair :
            (alive[r1] /\ alive[r2] /\ AppliedIds(r1) = AppliedIds(r2))
            => replica_state[r1].crdt.elements = replica_state[r2].crdt.elements

\* the two replicas have applied two such Inserted events, made after an element
\* that is not the base, in opposite orders
RGAConcurrentInsertOrderWitness ==
    \E e, f \in AllEvents :
        /\ RGAConcurrentSiblings(e, f)
        /\ e.data.prev.replica_id # RGABaseReplicaId
        /\ alive[0] /\ alive[1]
        /\ AppliedIds(0) = AppliedIds(1)
        /\ \E i, j \in DOMAIN Log(0) :
              i < j /\ EventId(Log(0)[i]) = EventId(e) /\ EventId(Log(0)[j]) = EventId(f)
        /\ \E i, j \in DOMAIN Log(1) :
              i < j /\ EventId(Log(1)[i]) = EventId(f) /\ EventId(Log(1)[j]) = EventId(e)

\* The sequence without its entry at a position counted from 1
Without(seq, i) == SubSeq(seq, 1, i - 1) \o SubSeq(seq, i + 1, Len(seq))

\* The ptrs of the visible elements of an RGA, in their order
RGAVisiblePtrs(crdt) ==
    LET visible == SelectSeq(crdt.elements, LAMBDA el : el.value # None)
    IN  [i \in DOMAIN visible |-> visible[i].ptr]

(***************************************************************************)
(* C18. RGA Remove targets the visible element: for every valid visible    *)
(* index i, prepare(Remove(i)) is Removed(the ptr of the i-th visible      *)
(* element), and after its effect query() is the previous query() without  *)
(* the element at i, tombstones or not before it.                          *)
(***************************************************************************)
RGARemoveTargetsVisible ==
    \A r \in Pair :
        alive[r] =>
            LET crdt == replica_state[r].crdt
            IN  \A i \in 0 .. (Len(RGAQuery(crdt)) - 1) :
                    LET data == RGAPrepare(crdt, [cmd |-> "Remove", index |-> i])
                    IN  /\ data.ptr = RGAVisiblePtrs(crdt)[i + 1]
                        /\ RGAQuery(RGAEffect(crdt, [data |-> data]))
                                = Without(RGAQuery(crdt), i + 1)

\* a is an Added event and b a Removed event prepared concurrently with it; b
\* removes the value a adds (it carries the version of an earlier Added of it)
ORSetConcurrentAddRemove(a, b) ==
    /\ a.data.op = "Added" /\ b.data.op = "Removed"
    /\ compare(a.version, b.version) = "Concurrent"
    /\ \E c \in AllEvents :
          /\ c.data.op = "Added" /\ c.data.value = a.data.value
          /\ c.version \in b.data.versions

(***************************************************************************)
(* C19. OR-Set add-wins: when an Add(v) is concurrent with a Remove(v),    *)
(* then at every replica that has applied both events, in either order,    *)
(* and no Remove made after the Add, v is in query().                      *)
(***************************************************************************)
ORSetAddWins ==
    \A r \in Pair : \A a, b \in AllEvents :
        (/\ alive[r]
         /\ ORSetConcurrentAddRemove(a, b)
         /\ {EventId(a), EventId(b)} \subseteq AppliedIds(r)
         /\ \A i \in DOMAIN Log(r) :
                Log(r)[i].data.op = "Removed" => ~VLess(a.version, Log(r)[i].version))
        => \E el \in query(replica_state[r].crdt) : el.value = a.data.value

\* the two replicas have applied such an Add and Remove in opposite orders
ORSetAddWinsWitness ==
    \E a, b \in AllEvents :
        /\ ORSetConcurrentAddRemove(a, b)
        /\ alive[0] /\ alive[1]
        /\ \E i, j \in DOMAIN Log(0) :
              i < j /\ EventId(Log(0)[i]) = EventId(a) /\ EventId(Log(0)[j]) = EventId(b)
        /\ \E i, j \in DOMAIN Log(1) :
              i < j /\ EventId(Log(1)[i]) = EventId(b) /\ EventId(Log(1)[j]) = EventId(a)
        /\ \A r \in Pair : \E el \in query(replica_state[r].crdt) : el.value = a.data.value

MergeAdvancesOwnEntry ==
    (/\ clock_op.op = "merge"
     /\ Get(clock_op.other, clock_op.replica_id) <= Get(clock_op.self, clock_op.replica_id))
    => /\ Get(clock_op.out, clock_op.replica_id)
            = Get(clock_op.self, clock_op.replica_id) + 1
       /\ \A k \in Replicas \ {clock_op.replica_id} :
             Get(clock_op.out, k) = Max(Get(clock_op.self, k), Get(clock_op.other, k))

(***************************************************************************)
(* C24. A clock that has merged another one is strictly later than it: for *)
(* a non-empty clock a and a fresh clock b, after b.merge(r, a) with r not  *)
(* a key of a, a.compare(b) = Less and b.compare(a) = Greater.             *)
(***************************************************************************)
MergedIsLater ==
    (/\ clock_op.op = "merge"
     /\ clock_op.self = init
     /\ clock_op.other # init
     /\ clock_op.replica_id \notin DOMAIN clock_op.other)
    => /\ compare_results(clock_op.other, clock_op.out) = {"Less"}
       /\ compare_results(clock_op.out, clock_op.other) = {"Greater"}

(***************************************************************************)
(* C25. VectorClock compare laws, for all clocks a, b: a.compare(a) is     *)
(* Equal; a.compare(b) is Less iff b.compare(a) is Greater; a.compare(b)   *)
(* is Concurrent iff b.compare(a) is Concurrent.                           *)
(***************************************************************************)
CompareLaws ==
    clock_op.op = "compare" =>
        /\ compare_results(clock_op.self, clock_op.self) = {"Equal"}
        /\ \A back \in compare_results(clock_op.other, clock_op.self) :
              /\ clock_op.out = "Less" <=> back = "Greater"
              /\ clock_op.out = "Greater" <=> back = "Less"
              /\ clock_op.out = "Concurrent" <=> back = "Concurrent"

\* a compare of two clocks of two keys each answered Less
CompareLawsWitness ==
    /\ clock_op.op = "compare"
    /\ clock_op.out = "Less"
    /\ Cardinality(DOMAIN clock_op.self) >= 2
    /\ Cardinality(DOMAIN clock_op.other) >= 2

\* The partial order of vector clocks, a missing key counting as 0
ClockOrder(a, b) ==
    LET keys == (DOMAIN a) \cup (DOMAIN b)
        le == \A k \in keys : Get(a, k) <= Get(b, k)
        ge == \A k \in keys : Get(a, k) >= Get(b, k)
    IN  IF le /\ ge THEN "Equal"
        ELSE IF le THEN "Less"
        ELSE IF ge THEN "Greater"
        ELSE "Concurrent"

(***************************************************************************)
(* C26. VectorClock.compare equals the partial order with a missing key    *)
(* as 0, whatever order the keys are scanned in: Equal iff all entries are *)
(* equal, Less iff a <= b pointwise with an entry strictly smaller,        *)
(* Greater iff a >= b pointwise with an entry strictly greater,            *)
(* Concurrent otherwise.                                                   *)
(***************************************************************************)
CompareIsPartialOrder ==
    /\ clock_op.op = "compare" =>
          /\ clock_op.out = ClockOrder(clock_op.self, clock_op.other)
          /\ compare(clock_op.self, clock_op.other) = clock_op.out
    /\ compare_results(init, init) = {"Equal"}
    /\ compare_results(increment(init, 0), increment(init, 1)) = {"Concurrent"}

\* a compare of two clocks with three keys between them, each larger than the
\* other at one key, answered Concurrent
CompareIsPartialOrderWitness ==
    /\ clock_op.op = "compare"
    /\ clock_op.out = "Concurrent"
    /\ (DOMAIN clock_op.self) \cup (DOMAIN clock_op.other) = Replicas
    /\ \E k \in Replicas : Get(clock_op.self, k) = Get(clock_op.other, k)

\* The step is replica r handling the Replicated message m
ReplicatedHandled(r, m) ==
    /\ alive[r]
    /\ m.type = "Replicated" /\ m.to = r
    /\ mailbox' = Receive(mailbox, m)

\* The events the step appends to the store of replica r
NewEvents(r) ==
    SubSeq(event_store'[r].events, Len(Log(r)) + 1, Len(event_store'[r].events))

(***************************************************************************)
(* C27. process_replicated renumbers per accepted event: when it accepts   *)
(* k >= 1 events from one Replicated message, the replica's seq_nr         *)
(* afterwards is the old seq_nr + k and the i-th accepted event is stored  *)
(* with local_seq_nr = old seq_nr + i.                                     *)
(***************************************************************************)
PerEventRenumbering ==
    [][\A r \in Replicas : \A m \in BagToSet(mailbox) :
        (ReplicatedHandled(r, m) /\ Len(NewEvents(r)) >= 1) =>
            /\ replica_state'[r].seq_nr = replica_state[r].seq_nr + Len(NewEvents(r))
            /\ \A i \in DOMAIN NewEvents(r) :
                  NewEvents(r)[i].local_seq_nr = replica_state[r].seq_nr + i]_vars

\* The global identities of a sequence of events, in its order
Ids(events) == [i \in DOMAIN events |-> EventId(events[i])]

SecondAnswerHandled(r, m) ==
    /\ ReplicatedHandled(r, m)
    /\ m.events # << >>
    /\ m.sender \notin DOMAIN replica_state[r].observed
    /\ \A i \in DOMAIN m.events :
          /\ m.events[i].origin = m.sender
          /\ EventId(m.events[i]) \in AppliedIds(r)

CommandHandled(r) ==
    /\ budget'.commands = budget.commands - 1
    /\ event_store'[r] # event_store[r]

(***************************************************************************)
(* C30. process_command on state S raises seq_nr by exactly 1, raises      *)
(* version[S.id] by exactly 1 and leaves every other version entry and the *)
(* observed map unchanged, applies the prepared event's effect to the crdt *)
(* exactly once, and appends exactly one event to the store, with origin = *)
(* S.id, origin_seq_nr = local_seq_nr = the new seq_nr and version = the   *)
(* new version.                                                            *)
(***************************************************************************)
ProcessCommandStep ==
    [][\A r \in Replicas :
        CommandHandled(r) =>
            LET S == replica_state[r]
                T == replica_state'[r]
            IN  /\ T.seq_nr = S.seq_nr + 1
                /\ Get(T.version, S.id) = Get(S.version, S.id) + 1
                /\ \A k \in Replicas \ {S.id} : Get(T.version, k) = Get(S.version, k)
                /\ T.observed = S.observed
                /\ Len(NewEvents(r)) = 1
                /\ event_store'[r].events = Log(r) \o NewEvents(r)
                /\ T.crdt = effect(S.crdt, NewEvents(r)[1])
                /\ query(T.crdt) = query(S.crdt) + NewEvents(r)[1].data
                /\ NewEvents(r)[1].origin = S.id
                /\ NewEvents(r)[1].origin_seq_nr = T.seq_nr
                /\ NewEvents(r)[1].local_seq_nr = T.seq_nr
                /\ NewEvents(r)[1].version = T.version]_vars

\* a replica that has restarted accepted an event from a peer and then created
\* an event of its own, which no replay has put into observed
ProcessCommandStepWitness ==
    \E r \in Replicas :
        /\ starts[r] = 2
        /\ r \notin DOMAIN replica_state[r].observed
        /\ Len(Log(r)) = 2
        /\ Log(r)[1].origin # r
        /\ Log(r)[2].origin = r
        /\ Log(r)[2].origin_seq_nr = 2
        /\ replica_state[r].seq_nr = 2

(***************************************************************************)
(* C21. Global event identity: no two distinct events created by           *)
(* process_command share (origin, origin_seq_nr), whatever the             *)
(* interleaving of commands and accepted batches, and across a restart     *)
(* that reloads the snapshot and the log. Every event is in the log of its *)
(* origin from its creation on, so the event a Command step creates has an *)
(* identity that no event of any log has.                                  *)
(***************************************************************************)
GlobalEventIdentity ==
    [][\A r \in Replicas :
        CommandHandled(r) =>
            /\ Len(NewEvents(r)) = 1
            /\ \A e \in AllEvents : EventId(e) # EventId(NewEvents(r)[1])]_vars

\* a replica restarted from a snapshot, replayed an event of its own and has
\* created another event since
GlobalEventIdentityWitness ==
    \E r \in Replicas :
        /\ starts[r] = 2
        /\ load_snapshot(event_store[r]) # None
        /\ Get(replica_state[r].observed, r) >= 1
        /\ \E i \in DOMAIN Log(r) :
              /\ Log(r)[i].origin = r
              /\ Log(r)[i].origin_seq_nr > Get(replica_state[r].observed, r)

\* The step is replica r handling the Replicate message m of a peer it knows
ReplicateHandled(r, m) ==
    /\ alive[r]
    /\ m.type = "Replicate" /\ m.to = r
    /\ m.sender \in replicating_nodes[r]
    /\ CopiesIn(m, mailbox') = CopiesIn(m, mailbox) - 1

\* The events of the log of r that a replay from from_seq scans
Scanned(r, from_seq) == SelectSeq(Log(r), LAMBDA e : e.local_seq_nr >= from_seq)

\* The largest local_seq_nr of a sequence of events, 0 for none
LastLocalSeq(events) ==
    IF events = << >> THEN 0
    ELSE CHOOSE n \in {events[i].local_seq_nr : i \in DOMAIN events} :
            \A i \in DOMAIN events : events[i].local_seq_nr <= n

(***************************************************************************)
(* C31. process_replay(from_seq, requester_version) returns, in log order, *)
(* exactly the stored events with local_seq_nr >= from_seq whose version   *)
(* compares Greater or Concurrent to requester_version, together with      *)
(* last_local_seq = the largest local_seq_nr over all scanned events,      *)
(* shipped or not (0 when none was scanned); it changes neither the        *)
(* replica state nor the store.                                            *)
(***************************************************************************)
ReplayShipsLaterEvents ==
    [][\A r \in Replicas : \A m \in BagToSet(mailbox) :
        ReplicateHandled(r, m) =>
            /\ mailbox' = Send(Receive(mailbox, m),
                    {[type |-> "Replicated", to |-> m.sender, sender |-> r,
                      seq_nr |-> LastLocalSeq(Scanned(r, m.seq_nr)),
                      version |-> EmptyMap,
                      events |-> SelectSeq(Scanned(r, m.seq_nr), LAMBDA e :
                          ClockOrder(e.version, m.version) \in {"Greater", "Concurrent"})]})
            /\ replica_state' = replica_state
            /\ event_store' = event_store]_vars

\* an answer in flight to a requester that has accepted nothing from the sender
\* (its cursor was 1): the sender scanned its two events and shipped the second
ReplayShipsLaterEventsWitness ==
    \E m \in BagToSet(mailbox) :
        /\ m.type = "Replicated"
        /\ m.sender \notin DOMAIN replica_state[m.to].observed
        /\ Len(Log(m.sender)) = 2
        /\ m.seq_nr = 2
        /\ Len(m.events) = 1
        /\ m.events[1].local_seq_nr = 2

\* No event of the Replicated message m passes the unseen filter of replica r
NothingUnseen(r, m) ==
    \A i \in DOMAIN m.events :
        LET e == m.events[i]
        IN  /\ ~(/\ e.origin \in DOMAIN replica_state[r].observed
                 /\ replica_state[r].observed[e.origin] < e.origin_seq_nr)
            /\ ClockOrder(e.version, replica_state[r].version) \in {"Less", "Equal"}

(***************************************************************************)
(* C32. When no event of a Replicated message passes the unseen filter,    *)
(* process_replicated returns None and seq_nr, version, observed, crdt and *)
(* the event store are all unchanged.                                      *)
(***************************************************************************)
NothingUnseenChangesNothing ==
    [][\A r \in Replicas : \A m \in BagToSet(mailbox) :
        (ReplicatedHandled(r, m) /\ NothingUnseen(r, m)) =>
            /\ process_replicated(replica_state[r], m.sender, m.events).new_state = None
            /\ replica_state'[r] = replica_state[r]
            /\ event_store'[r] = event_store[r]]_vars

\* The third replica synced once while empty (nobody else synced) and handled
\* both answers: it accepted A from the first replica and then dropped the
\* whole answer of the second, which held A alone
NothingUnseenChangesNothingWitness ==
    /\ budget.commands = MaxCommandsUnseen
    /\ budget.syncs = MaxSyncsUnseen - 1
    /\ mailbox = EmptyBag
    /\ Ids(Log(2)) = << <<0, 1>> >>
    /\ DOMAIN replica_state[2].observed = {0}
    /\ replica_state[2].observed[0] = 1
    /\ replica_state[2].seq_nr = 1

\* The step is a replica handling Sync
SyncHandled == budget'.syncs = budget.syncs - 1

(***************************************************************************)
(* C33. On Sync a replica sends exactly one Replicate(self.id,             *)
(* observed.get(p, 0) + 1, current version) to each peer p in its          *)
(* directory and to no other replica, and its own state and store are      *)
(* unchanged by the Sync.                                                  *)
(***************************************************************************)
SyncAsksEveryPeer ==
    [][SyncHandled =>
        /\ \E r \in Replicas :
              mailbox' = mailbox (+) SetToBag(
                  {[type |-> "Replicate", to |-> p, sender |-> r,
                    seq_nr |-> Get(replica_state[r].observed, p) + 1,
                    version |-> replica_state[r].version,
                    events |-> << >>] : p \in replicating_nodes[r]})
        /\ replica_state' = replica_state
        /\ event_store' = event_store]_vars

\* One Sync has been handled, by a replica that knows one peer only and had
\* created an event: its one Replicate, to that peer, is the only message
SyncAsksEveryPeerWitness ==
    \E r, p \in Replicas :
        /\ budget.syncs = MaxSyncsOpen - 1
        /\ replicating_nodes[r] = {p}
        /\ \A q \in Replicas : alive[q]
        /\ \E m \in BagToSet(mailbox) :
              /\ mailbox = SetToBag({m})
              /\ m.type = "Replicate" /\ m.sender = r /\ m.to = p
              /\ m.seq_nr = 1
              /\ m.version # EmptyMap

\* The events that were in the log of the sender of the Replicated message m
\* when it handled the Replicate that m answers. A log only grows, its
\* local_seq_nr never decreases along it, and an append takes a local_seq_nr
\* above all before it: when the replay scanned events, the log then was the
\* events up to m.seq_nr, the largest it scanned; when it scanned none, the log
\* then was below the cursor of the requester r, observed[sender] + 1.
LogAtReplay(r, m) ==
    LET upto == IF m.seq_nr >= 1 THEN m.seq_nr
                ELSE Get(replica_state[r].observed, m.sender)
    IN  SelectSeq(Log(m.sender), LAMBDA e : e.local_seq_nr <= upto)

(***************************************************************************)
(* C34. Pull completeness: when replica r handles Sync, a connected peer p *)
(* handles the resulting Replicate and r handles the resulting Replicated, *)
(* then r has applied every event that was in p's log when p handled the   *)
(* Replicate: the observed[p] + 1 cursor, the sender-side version filter   *)
(* and the unseen filter skip no event for good.                           *)
(***************************************************************************)
PullCompleteness ==
    [][\A r \in Replicas : \A m \in BagToSet(mailbox) :
        ReplicatedHandled(r, m) =>
            \A i \in DOMAIN LogAtReplay(r, m) :
                \E j \in DOMAIN event_store'[r].events :
                    EventId(event_store'[r].events[j]) = EventId(LogAtReplay(r, m)[i])]_vars

\* Replica r pulled from p twice: the first answer brought the first event of p,
\* the second, asked for past it, the second event; nothing is in flight
PullCompletenessWitness ==
    \E r, p \in Replicas :
        /\ r # p
        /\ mailbox = EmptyBag
        /\ Ids(Log(p)) = << <<p, 1>>, <<p, 2>> >>
        /\ Ids(Log(r)) = << <<p, 1>>, <<p, 2>> >>
        /\ Log(r)[1].local_seq_nr = 1
        /\ Log(r)[2].local_seq_nr = 2
        /\ replica_state[r].observed = Insert(EmptyMap, p, 2)

\* The Insert commands replica r can be sent for the text its crdt holds
InsertCommands(r) == {command \in Commands(r) : command.cmd = "Insert"}

\* The crdt of replica r after it has processed command locally
AfterCommand(r, command) == process_command(replica_state[r], command).state.crdt

(***************************************************************************)
(* C35. LSeq local insert position: in every reachable LSeq state, for     *)
(* every index with 0 <= index <= |query()|, after the replica processes   *)
(* Insert(index, owner, v) locally (prepare then effect), query()[index]   *)
(* is v and the elements present before keep their relative order.         *)
(***************************************************************************)
LSeqLocalInsertPosition ==
    \A r \in Pair : \A command \in InsertCommands(r) :
        alive[r] =>
            LET before == query(replica_state[r].crdt)
                after == query(AfterCommand(r, command))
            IN  /\ Len(after) = Len(before) + 1
                /\ after[command.index + 1] = command.value
                /\ Without(after, command.index + 1) = before

(***************************************************************************)
(* C36. LSeq ptr uniqueness: every Inserted operation produced by prepare  *)
(* carries a ptr (sequence, owner) different from the ptr of every other   *)
(* Inserted operation ever produced at any replica, inserts made by the    *)
(* same replica after a removal included.                                  *)
(***************************************************************************)
LSeqPtrUniqueness ==
    \A e, f \in AllEvents :
        (/\ e.data.op = "Inserted" /\ f.data.op = "Inserted"
         /\ EventId(e) # EventId(f))
            => ~LSeqPtrEq(e.data.ptr, f.data.ptr)

(***************************************************************************)
(* C37. RGA local insert position: in every reachable RGA state, for every *)
(* index with 0 <= i <= |query()|, after the replica processes             *)
(* Insert(i, v) locally (prepare then effect), query()[i] is v, the        *)
(* elements visible before keep their relative order, and the new at-ptr   *)
(* is strictly greater than every ptr already in elements.                 *)
(***************************************************************************)
RGALocalInsertPosition ==
    \A r \in Pair : \A command \in InsertCommands(r) :
        alive[r] =>
            LET crdt == replica_state[r].crdt
                before == query(crdt)
                after == query(AfterCommand(r, command))
                at == prepare(crdt, command).ptr
            IN  /\ Len(after) = Len(before) + 1
                /\ after[command.index + 1] = command.value
                /\ Without(after, command.index + 1) = before
                /\ \A i \in DOMAIN crdt.elements : RGAPtrLt(crdt.elements[i].ptr, at)

\* A replica has just inserted between an element of its peer and another element
RGALocalInsertPositionWitness ==
    \E r \in Pair :
        /\ alive[r]
        /\ Len(Log(r)) >= 1
        /\ LET e == Log(r)[Len(Log(r))]
               ptrs == RGAVisiblePtrs(replica_state[r].crdt)
           IN  /\ e.origin = r
               /\ e.data.op = "Inserted"
               /\ Len(ptrs) = 3
               /\ ptrs[2] = e.data.ptr
               /\ ptrs[1].replica_id # r

\* The text after the commands from the i-th on are applied to it in order, as
\* positional inserts and removes, and whether every index was one of the text
RECURSIVE apply_commands(_, _, _)
apply_commands(commands, text, i) ==
    IF i > Len(commands) THEN [valid |-> TRUE, text |-> text]
    ELSE LET command == commands[i]
         IN  IF command.cmd = "Insert"
             THEN IF command.index <= Len(text)
                  THEN apply_commands(commands, VecInsert(text, command.index, command.value), i + 1)
                  ELSE [valid |-> FALSE, text |-> text]
             ELSE IF command.index < Len(text)
                  THEN apply_commands(commands, VecRemove(text, command.index), i + 1)
                  ELSE [valid |-> FALSE, text |-> text]

(***************************************************************************)
(* C38. Input collaborator consistency: after any sequence of key presses  *)
(* in the InputField (characters, arrow left and right, backspace), the    *)
(* commands the receiver recorded, applied in order as positional inserts  *)
(* and removes to the initial text, give exactly the InputField's value,   *)
(* and every recorded Remove index is a valid index of the text at that    *)
(* point.                                                                  *)
(***************************************************************************)
InputCollaboratorConsistency ==
    LET replayed == apply_commands(receiver.commands, start_string, 1)
    IN  /\ replayed.valid
        /\ replayed.text = input_field.value

====
